---- MODULE Spec2Model ----
(***************************************************************************)
(* Model of src/app.py: a personal-finance ledger kept in a pandas         *)
(* DataFrame (st.session_state.df) and persisted to finances.csv.          *)
(*                                                                         *)
(* Encoding                                                                *)
(*   - an in-memory date is a record [y, m, d]; NaT is the null date;      *)
(*   - a date cell of the file is the number YYYYMMDD spelled by the ISO   *)
(*     text that to_csv writes; 0 spells the empty cell; a number that is  *)
(*     no calendar date spells a text to_datetime cannot parse;            *)
(*   - an amount is an integer number of currency units;                   *)
(*   - an amount cell of the file is <<v>> (numeric text) or <<>> (empty   *)
(*     or non-numeric text);                                               *)
(*   - NaN is pandas' missing value of a text column;                      *)
(*   - a DataFrame is a sequence of rows, each with its index label idx;   *)
(*   - the column "Descrição" is the field Descricao, and the category     *)
(*     labels are spelled without accents.                                 *)
(*                                                                         *)
(* Left out: the time of day a hand-written date cell may carry, the       *)
(* rounding of floating-point amounts, the dtype read_csv infers for a     *)
(* text column whose cells are all numbers, and a file that lacks one of   *)
(* the five columns.  A write that fails is cut between two rows, not      *)
(* inside one.                                                             *)
(***************************************************************************)
EXTENDS Integers, Sequences, FiniteSets, TLC

VARIABLES
    file,      \* finances.csv
    df,        \* st.session_state.df
    fresh,     \* history: the first session found no file, or a file without rows
    fallback,  \* history: "pending" from a load that fell back on the empty table
               \* because the file could not be read, until the session saves;
               \* "overwritten" after the save that ended it; "none" otherwise
    last       \* history: the last handler run and its inputs

vars == <<file, df, fresh, fallback, last>>

(***************************************************************************)
(* Bounds of the model.                                                    *)
(***************************************************************************)
MaxRows == 3        \* rows a table may hold
MaxParcelas == 2    \* installments offered by the form
MaxInitRows == 2    \* rows of the file the first session finds

NaN == "<NaN>"
NaT == [y |-> 0, m |-> 0, d |-> 0]

Min(a, b) == IF a < b THEN a ELSE b

(***************************************************************************)
(* Calendar (datetime / dateutil.relativedelta).                           *)
(***************************************************************************)
IsLeap(y) == (y % 4 = 0 /\ y % 100 # 0) \/ y % 400 = 0

DaysInMonth(y, m) ==
    IF m = 2 THEN (IF IsLeap(y) THEN 29 ELSE 28)
    ELSE IF m \in {4, 6, 9, 11} THEN 30 ELSE 31

\* a wrong month arithmetic: the day is kept as it is
AddMonthsSameDay(date, i) ==
    LET t == (date.m - 1) + i
    IN  [y |-> date.y + (t \div 12), m |-> (t % 12) + 1, d |-> date.d]

\* date + relativedelta(months=i): the month is advanced with year carry and
\* the day is clipped to the length of the target month
relativedelta_months(date, i) ==
    LET t == (date.m - 1) + i
        ny == date.y + (t \div 12)
        nm == (t % 12) + 1
    IN  [y |-> ny, m |-> nm, d |-> Min(date.d, DaysInMonth(ny, nm))]

DateKey(date) == date.y * 10000 + date.m * 100 + date.d

(***************************************************************************)
(* Cell conversions of load_data and save_data.                            *)
(***************************************************************************)
\* pd.to_datetime(..., errors="coerce")
to_datetime(c) ==
    LET y == c \div 10000
        m == (c \div 100) % 100
        d == c % 100
    IN  IF y >= 1 /\ m \in 1..12 /\ d >= 1 /\ d <= DaysInMonth(y, m)
        THEN [y |-> y, m |-> m, d |-> d]
        ELSE NaT

\* to_csv of a datetime64 cell: NaT is written as the empty cell
write_date(date) == IF date = NaT THEN 0 ELSE DateKey(date)

\* pd.to_numeric(..., errors="coerce").fillna(0)
to_numeric(c) == IF c = <<>> THEN 0 ELSE c[1]

write_number(v) == <<v>>

\* read_csv's default na_values
NaValues == {"", "#N/A", "#N/A N/A", "#NA", "-1.#IND", "-1.#QNAN", "-NaN", "-nan",
             "1.#IND", "1.#QNAN", "<NA>", "N/A", "NA", "NULL", "NaN", "None",
             "n/a", "nan", "null"}

read_text(c) == IF c \in NaValues THEN NaN ELSE c

\* to_csv's default na_rep
write_text(s) == IF s = NaN THEN "" ELSE s

(***************************************************************************)
(* DataFrame helpers.                                                      *)
(***************************************************************************)
Labels(t) == {t[i].idx : i \in 1..Len(t)}

\* the rows of a table without their index labels, in table order
Fields(r) == [Data |-> r.Data, Tipo |-> r.Tipo, Categoria |-> r.Categoria,
              Valor |-> r.Valor, Descricao |-> r.Descricao]

Body(t) == [i \in 1..Len(t) |-> Fields(t[i])]

\* reset_index(drop=True) / ignore_index=True
reset_index(t) ==
    [i \in 1..Len(t) |-> [idx |-> i - 1, Data |-> t[i].Data, Tipo |-> t[i].Tipo,
                          Categoria |-> t[i].Categoria, Valor |-> t[i].Valor,
                          Descricao |-> t[i].Descricao]]

RemoveAt(s, i) == SubSeq(s, 1, i - 1) \o SubSeq(s, i + 1, Len(s))

\* sort key of sort_values(by="Data"): ascending, NaT last (na_position="last")
SortKey(r) == IF r.Data = NaT THEN 99999999 ELSE DateKey(r.Data)

Injective(p, n) == \A i, j \in 1..n : i # j => p[i] # p[j]

\* a wrong sort: descending
sort_values_desc(t) ==
    LET n == Len(t)
    IN  {[i \in 1..n |-> t[p[i]]] :
            p \in {q \in [1..n -> 1..n] :
                     /\ Injective(q, n)
                     /\ \A i \in 1..(n - 1) : SortKey(t[q[i]]) >= SortKey(t[q[i + 1]])}}

RECURSIVE sort_values(_)
\* df.sort_values(by="Data", inplace=True): the rows keep their labels; the
\* default sort (quicksort) is not stable, so rows of equal date may come in
\* any order; the rows without a date are put last in the order they had.
\* The set of the tables the sort may give.
sort_values(t) ==
    IF t = <<>> THEN {<<>>}
    ELSE LET firsts == {i \in 1..Len(t) :
                          /\ \A j \in 1..Len(t) : SortKey(t[i]) <= SortKey(t[j])
                          /\ t[i].Data = NaT => \A j \in 1..(i - 1) : t[j].Data # NaT}
         IN  UNION {{<<t[i]>> \o rest : rest \in sort_values(RemoveAt(t, i))} :
                       i \in firsts}

(***************************************************************************)
(* The file.                                                               *)
(***************************************************************************)
Absent == [kind |-> "absent", rows |-> <<>>]
Unreadable == [kind |-> "unreadable", rows |-> <<>>]
Csv(rows) == [kind |-> "csv", rows |-> rows]

\* load_data(): an absent file and a file read_csv cannot read both give the
\* empty table
load_data(f) ==
    IF f.kind = "csv"
    THEN [i \in 1..Len(f.rows) |->
            [idx |-> i - 1,
             Data |-> to_datetime(f.rows[i].Data),
             Tipo |-> read_text(f.rows[i].Tipo),
             Categoria |-> read_text(f.rows[i].Categoria),
             Valor |-> to_numeric(f.rows[i].Valor),
             Descricao |-> read_text(f.rows[i].Descricao)]]
    ELSE <<>>

\* a wrong save: of the table the pages work on, which lacks the rows without
\* a date
save_data_dated(t) ==
    LET v == SelectSeq(t, LAMBDA r : r.Data # NaT)
    IN  Csv([i \in 1..Len(v) |->
                [Data |-> write_date(v[i].Data),
                 Tipo |-> write_text(v[i].Tipo),
                 Categoria |-> write_text(v[i].Categoria),
                 Valor |-> write_number(v[i].Valor),
                 Descricao |-> write_text(v[i].Descricao)]])

\* save_data(df): df.to_csv(FILE_PATH, index=False), when the write succeeds
save_data(t) ==
    Csv([i \in 1..Len(t) |->
            [Data |-> write_date(t[i].Data),
             Tipo |-> write_text(t[i].Tipo),
             Categoria |-> write_text(t[i].Categoria),
             Valor |-> write_number(t[i].Valor),
             Descricao |-> write_text(t[i].Descricao)]])

\* what a to_csv that raises leaves behind: the old file (it could not be
\* opened), a file of zero bytes, or the header and the first rows
failed_write(f, t) ==
    {f, Unreadable} \cup {Csv(SubSeq(save_data(t).rows, 1, k)) : k \in 0..(Len(t) - 1)}

(***************************************************************************)
(* Transaction operations.                                                 *)
(***************************************************************************)
\* get_categories(transaction_type); the labels are spelled without accents
get_categories(transaction_type) ==
    IF transaction_type = "Receita"
    THEN <<"Salario", "Investimento", "Freelance", "Presente", "Vendas", "Outros">>
    ELSE <<"Alimentacao", "Transporte", "Moradia", "Lazer", "Saude", "Educacao",
           "Contas", "Compras", "Outros">>

\* a wrong suffix: the loop index itself, counted from 0
parcela_desc_from0(description, i, parcelas) ==
    IF parcelas > 1
    THEN description \o " (" \o ToString(i) \o "/" \o ToString(parcelas) \o ")"
    ELSE description

\* the description of the i-th of parcelas rows, i counted from 0 as in the loop
parcela_desc(description, i, parcelas) ==
    IF parcelas > 1
    THEN description \o " (" \o ToString(i + 1) \o "/" \o ToString(parcelas) \o ")"
    ELSE description

\* the loop of add_transaction: one row per installment
new_rows(date, type, category, value, description, parcelas) ==
    [k \in 1..parcelas |->
        [Data |-> relativedelta_months(date, k - 1),
         Tipo |-> type,
         Categoria |-> category,
         Valor |-> value,
         Descricao |-> parcela_desc(description, k - 1, parcelas)]]

\* a wrong concat: without ignore_index the new rows bring their own labels
\* 0, 1, ... and the old rows keep theirs
concat_keep_index(t, rows) ==
    t \o [i \in 1..Len(rows) |-> [idx |-> i - 1, Data |-> rows[i].Data,
                                   Tipo |-> rows[i].Tipo,
                                   Categoria |-> rows[i].Categoria,
                                   Valor |-> rows[i].Valor,
                                   Descricao |-> rows[i].Descricao]]

\* pd.concat([df, new_df], ignore_index=True): labels 0..n-1 in concat order
concat(t, rows) ==
    LET b == Body(t) \o rows
    IN  [i \in 1..Len(b) |-> [idx |-> i - 1, Data |-> b[i].Data, Tipo |-> b[i].Tipo,
                              Categoria |-> b[i].Categoria, Valor |-> b[i].Valor,
                              Descricao |-> b[i].Descricao]]

\* add_transaction up to its save_data: the tables it may compute (one per
\* order the sort may give to rows of equal date)
add_transaction(t, date, type, category, value, description, parcelas) ==
    sort_values(concat(t, new_rows(date, type, category, value, description, parcelas)))

\* a wrong drop: by ordinal position (df.drop(df.index[index]))
drop_by_position(t, index) == RemoveAt(t, index + 1)

\* df.drop(index): by index label; a label the table lacks raises KeyError
drop(t, index) == SelectSeq(t, LAMBDA r : r.idx # index)

\* delete_transaction up to its save_data
delete_transaction(t, index) == reset_index(drop(t, index))

(***************************************************************************)
(* The table the pages work on (lines 131-140) and the aggregations.       *)
(***************************************************************************)
\* a wrong view: the rows without a date are kept
dropna_none(t) == t

\* df.dropna(subset=["Data"])
dropna(t) == SelectSeq(t, LAMBDA r : r.Data # NaT)

Sinal(tipo) == IF tipo = "Receita" THEN 1 ELSE -1

ValorAjustado(r) == r.Valor * Sinal(r.Tipo)

RECURSIVE Sum(_)
\* Series.sum()
Sum(col) == IF col = <<>> THEN 0 ELSE Head(col) + Sum(Tail(col))

\* the columns of a table
ColValor(t) == [i \in 1..Len(t) |-> t[i].Valor]
ColValorAjustado(t) == [i \in 1..Len(t) |-> ValorAjustado(t[i])]

OfKind(t, kind) == SelectSeq(t, LAMBDA r : r.Tipo = kind)

\* line 211
total_balance(t) == Sum(ColValorAjustado(dropna(t)))
\* lines 212-213
total_by_kind(t, kind) == Sum(ColValor(OfKind(dropna(t), kind)))
total_income(t) == total_by_kind(t, "Receita")
total_expense(t) == total_by_kind(t, "Despesa")

\* the categories groupby("Categoria") makes groups of: NaN keys are dropped
\* (dropna=True)
group_keys(t) == {t[i].Categoria : i \in 1..Len(t)} \ {NaN}

\* lines 426-428, 444-446, 497-499, 526-528:
\* df[df["Tipo"] == kind].groupby("Categoria")["Valor"].sum()
group_by_category(t, kind) ==
    LET rows == OfKind(dropna(t), kind)
    IN  [c \in group_keys(rows) |->
            Sum(ColValor(SelectSeq(rows, LAMBDA r : r.Categoria = c)))]

RECURSIVE SortedDates(_)
\* the keys of groupby("Data"), in ascending order
SortedDates(S) ==
    IF S = {} THEN <<>>
    ELSE LET first == CHOOSE x \in S : \A y \in S : DateKey(x) <= DateKey(y)
         IN  <<first>> \o SortedDates(S \ {first})

Receita_diaria(r) == IF r.Tipo = "Receita" THEN r.Valor ELSE 0
Despesa_diaria(r) == IF r.Tipo = "Despesa" THEN r.Valor ELSE 0

ColReceita_diaria(t) == [i \in 1..Len(t) |-> Receita_diaria(t[i])]
ColDespesa_diaria(t) == [i \in 1..Len(t) |-> Despesa_diaria(t[i])]

\* a wrong cumsum: the daily values themselves
cumsum_none(col) == col

RECURSIVE cumsum(_)
\* Series.cumsum()
cumsum(col) ==
    IF col = <<>> THEN <<>>
    ELSE LET init == cumsum(SubSeq(col, 1, Len(col) - 1))
         IN  Append(init, (IF init = <<>> THEN 0 ELSE init[Len(init)]) + col[Len(col)])

\* lines 243-260: the points of the cumulative chart
cumulative_series(t) ==
    LET rows == dropna(t)
        days == SortedDates({rows[i].Data : i \in 1..Len(rows)})
        on(d) == SelectSeq(rows, LAMBDA r : r.Data = d)
        rec == cumsum([i \in 1..Len(days) |-> Sum(ColReceita_diaria(on(days[i])))])
        des == cumsum([i \in 1..Len(days) |-> Sum(ColDespesa_diaria(on(days[i])))])
        sal == cumsum([i \in 1..Len(days) |-> Sum(ColValorAjustado(on(days[i])))])
    IN  [i \in 1..Len(days) |->
            [Data |-> days[i], Receita_Acumulada |-> rec[i],
             Despesa_Acumulada |-> des[i], Saldo_Cumulativo |-> sal[i]]]

\* the keys of groupby(["Ano", "Mes_Num", "Mes", "Tipo"]): the month's name
\* follows from its number; a key with a missing part is dropped
month_keys(t) ==
    {<<t[i].Data.y, t[i].Data.m, t[i].Tipo>> :
        i \in {j \in 1..Len(t) : t[j].Data # NaT /\ t[j].Tipo # NaN}}

\* lines 392 and 559: groupby(["Ano", "Mes_Num", "Mes", "Tipo"])["Valor"].sum()
monthly_summary(t) ==
    LET rows == dropna(t)
    IN  [k \in month_keys(rows) |->
            Sum(ColValor(SelectSeq(rows, LAMBDA r :
                    /\ r.Data # NaT
                    /\ r.Data.y = k[1] /\ r.Data.m = k[2] /\ r.Tipo = k[3])))]

\* the keys of groupby(["Ano", "Tipo"])
year_keys(t) ==
    {<<t[i].Data.y, t[i].Tipo>> :
        i \in {j \in 1..Len(t) : t[j].Data # NaT /\ t[j].Tipo # NaN}}

\* line 585: groupby(["Ano", "Tipo"])["Valor"].sum()
yearly_summary(t) ==
    LET rows == dropna(t)
    IN  [k \in year_keys(rows) |->
            Sum(ColValor(SelectSeq(rows, LAMBDA r :
                    r.Data # NaT /\ r.Data.y = k[1] /\ r.Tipo = k[2])))]

\* lines 609-621: the rows the history page lists, each with its index label
\* as ID (the order of the listing, newest first, is left out)
history_listing(t) ==
    LET rows == dropna(t)
    IN  {[ID |-> rows[i].idx, Data |-> rows[i].Data, Tipo |-> rows[i].Tipo,
          Categoria |-> rows[i].Categoria, Valor |-> rows[i].Valor,
          Descricao |-> rows[i].Descricao] : i \in 1..Len(rows)}

\* lines 513-519 and 542-548: the rows the detail tables of a kind list
detail_listing(t, kind) ==
    LET rows == OfKind(dropna(t), kind)
    IN  {[Data |-> rows[i].Data, Categoria |-> rows[i].Categoria,
          Valor |-> rows[i].Valor, Descricao |-> rows[i].Descricao] :
            i \in 1..Len(rows)}

(***************************************************************************)
(* Inputs.                                                                 *)
(***************************************************************************)
Date(y, m, d) == [y |-> y, m |-> m, d |-> d]

Kinds == {"Receita", "Despesa"}

\* what the user types into the form
InputEntries ==
    { [date |-> Date(2023, 12, 15), type |-> "Receita", value |-> 1000,
       description |-> ""],
      [date |-> Date(2023, 12, 15), type |-> "Despesa", value |-> 300,
       description |-> "Aluguel"],
      [date |-> Date(2024, 1, 31), type |-> "Despesa", value |-> 300,
       description |-> "Aluguel"],
      [date |-> Date(2024, 1, 31), type |-> "Despesa", value |-> 0,
       description |-> ""] }

\* rows of a file that was written by hand or by another program
SampleRows ==
    { [Data |-> 20240110, Tipo |-> "Outro", Categoria |-> "Lazer",
       Valor |-> <<500>>, Descricao |-> ""],
      [Data |-> 20240231, Tipo |-> "Despesa", Categoria |-> "Lazer",
       Valor |-> <<>>, Descricao |-> "NA"],
      [Data |-> 20240120, Tipo |-> "Despesa", Categoria |-> "",
       Valor |-> <<300>>, Descricao |-> "x"] }

SeqsUpTo(S, n) == UNION {[1..k -> S] : k \in 0..n}

InitFiles == {Absent, Unreadable} \cup {Csv(s) : s \in SeqsUpTo(SampleRows, MaxInitRows)}

(***************************************************************************)
(* History record.                                                         *)
(***************************************************************************)
NoRow == [Data |-> NaT, Tipo |-> "", Categoria |-> "", Valor |-> 0, Descricao |-> ""]

\* op: the handler; ok: FALSE when its save_data raised; arg, parcelas: the
\* form's entry; id: the ID selected for deletion; pos: the ordinal position
\* (from 0) at which the row labelled id stood
Did(op, ok, arg, parcelas, id, pos) ==
    [op |-> op, ok |-> ok, arg |-> arg, parcelas |-> parcelas, id |-> id, pos |-> pos]

PositionOf(t, label) == (CHOOSE i \in 1..Len(t) : t[i].idx = label) - 1

\* the row of t labelled label, without the label
Labelled(t, label) == Fields(t[PositionOf(t, label) + 1])

Entry(date, type, category, value, description) ==
    [Data |-> date, Tipo |-> type, Categoria |-> category, Valor |-> value,
     Descricao |-> description]

(***************************************************************************)
(* The session.                                                            *)
(***************************************************************************)
\* the read of load_data raised (lines 25-27)
ReadFailed(f) == f.kind = "unreadable"

\* the history of a fallback, after a load of f and after a save
AfterLoad(f) == IF ReadFailed(f) THEN "pending" ELSE "none"
AfterSave(h) == IF h = "pending" THEN "overwritten" ELSE "none"

Init ==
    /\ file \in InitFiles
    /\ df = load_data(file)
    /\ fresh = (file.rows = <<>> /\ file.kind # "unreadable")
    /\ fallback = AfterLoad(file)
    /\ last = Did("init", TRUE, NoRow, 0, 0, 0)

\* a wrong load: a file that cannot be read is replaced by an empty table's
NewSessionRepairs ==
    /\ df' = load_data(file)
    /\ file' = IF ReadFailed(file) THEN save_data(<<>>) ELSE file
    /\ UNCHANGED fresh
    /\ fallback' = AfterLoad(file)
    /\ last' = Did("load", TRUE, NoRow, 0, 0, 0)

\* a new browser session: "df" is not in st.session_state (lines 121-122)
NewSession ==
    /\ df' = load_data(file)
    /\ UNCHANGED <<file, fresh>>
    /\ fallback' = AfterLoad(file)
    /\ last' = Did("load", TRUE, NoRow, 0, 0, 0)

\* what the form can submit: the category is one of get_categories(type) (the
\* model takes the first); installments only for an expense marked recurring
\* (lines 332-352)
FormInputs ==
    {inp \in {[date |-> e.date, type |-> e.type,
               category |-> Head(get_categories(e.type)), value |-> e.value,
               description |-> e.description, parcelas |-> n] :
                  e \in InputEntries, n \in 1..MaxParcelas} :
        inp.parcelas > 1 => inp.type = "Despesa"}

AddFromForm(t, inp) ==
    add_transaction(t, inp.date, inp.type, inp.category, inp.value, inp.description,
                    inp.parcelas)

EntryOf(inp) == Entry(inp.date, inp.type, inp.category, inp.value, inp.description)

\* form submit handler (lines 356-369), value > 0, the write succeeds
SubmitSaved ==
    \E inp \in FormInputs :
        /\ inp.value > 0
        /\ Len(df) + inp.parcelas <= MaxRows
        /\ \E t \in AddFromForm(df, inp) :
              /\ file' = save_data(t)
              /\ df' = t
        /\ UNCHANGED fresh
        /\ fallback' = AfterSave(fallback)
        /\ last' = Did("submit", TRUE, EntryOf(inp), inp.parcelas, 0, 0)

\* a wrong handler: the session keeps the table whose save failed
SubmitWriteFailsMutated ==
    \E inp \in FormInputs :
        /\ inp.value > 0
        /\ Len(df) + inp.parcelas <= MaxRows
        /\ \E t \in AddFromForm(df, inp) :
              /\ file' \in failed_write(file, t)
              /\ df' = t
        /\ UNCHANGED <<fresh, fallback>>
        /\ last' = Did("submit", FALSE, EntryOf(inp), inp.parcelas, 0, 0)

\* form submit handler, value > 0, save_data raises inside add_transaction:
\* the exception leaves the handler before st.session_state.df is assigned
SubmitWriteFails ==
    \E inp \in FormInputs :
        /\ inp.value > 0
        /\ Len(df) + inp.parcelas <= MaxRows
        /\ file' \in UNION {failed_write(file, t) : t \in AddFromForm(df, inp)}
        /\ df' = df
        /\ UNCHANGED <<fresh, fallback>>
        /\ last' = Did("submit", FALSE, EntryOf(inp), inp.parcelas, 0, 0)

\* a wrong handler: an entry of value <= 0 is added like any other
SubmitUnchecked ==
    \E inp \in FormInputs :
        /\ ~(inp.value > 0)
        /\ Len(df) + inp.parcelas <= MaxRows
        /\ \E t \in AddFromForm(df, inp) :
              /\ file' = save_data(t)
              /\ df' = t
        /\ UNCHANGED fresh
        /\ fallback' = AfterSave(fallback)
        /\ last' = Did("submit", TRUE, EntryOf(inp), inp.parcelas, 0, 0)

\* form submit handler, value <= 0 (lines 370-371): st.error only
SubmitRejected ==
    \E inp \in FormInputs :
        /\ ~(inp.value > 0)
        /\ UNCHANGED <<file, df, fresh, fallback>>
        /\ last' = Did("rejected", TRUE, [NoRow EXCEPT !.Valor = inp.value], 0, 0, 0)

\* the IDs the history page offers (lines 609-627): the labels of the rows
\* that have a date
valid_ids(t) == Labels(dropna(t))

\* a wrong delete: the table is not saved
DeleteNotSaved ==
    \E selected_id \in valid_ids(df) :
        /\ file' = file
        /\ df' = delete_transaction(df, selected_id)
        /\ UNCHANGED fresh
        /\ fallback' = AfterSave(fallback)
        /\ last' = Did("delete", TRUE, Labelled(df, selected_id), 0, selected_id,
                       PositionOf(df, selected_id))

\* delete button (lines 640-644), the write succeeds
DeleteSaved ==
    \E selected_id \in valid_ids(df) :
        /\ file' = save_data(delete_transaction(df, selected_id))
        /\ df' = delete_transaction(df, selected_id)
        /\ UNCHANGED fresh
        /\ fallback' = AfterSave(fallback)
        /\ last' = Did("delete", TRUE, Labelled(df, selected_id), 0, selected_id,
                       PositionOf(df, selected_id))

\* delete button, save_data raises inside delete_transaction
DeleteWriteFails ==
    \E selected_id \in valid_ids(df) :
        /\ file' \in failed_write(file, delete_transaction(df, selected_id))
        /\ df' = df
        /\ UNCHANGED <<fresh, fallback>>
        /\ last' = Did("delete", FALSE, Labelled(df, selected_id), 0, selected_id,
                       PositionOf(df, selected_id))

Next ==
    \/ NewSession
    \/ SubmitSaved
    \/ SubmitWriteFails
    \/ SubmitRejected
    \/ DeleteSaved
    \/ DeleteWriteFails

Spec == Init /\ [][Next]_vars

(***************************************************************************)
(* add_transaction called directly, without the form's check, with the     *)
(* entries the form would reject.                                          *)
(***************************************************************************)
CallInputs ==
    {[date |-> e.date, type |-> e.type, category |-> Head(get_categories(e.type)),
      value |-> e.value, description |-> e.description, parcelas |-> n] :
        e \in {x \in InputEntries : x.value <= 0}, n \in 1..MaxParcelas}

\* df = add_transaction(df, ...), the write succeeds
CallAddSaved ==
    \E inp \in CallInputs :
        /\ Len(df) + inp.parcelas <= MaxRows
        /\ \E t \in AddFromForm(df, inp) :
              /\ file' = save_data(t)
              /\ df' = t
        /\ UNCHANGED fresh
        /\ fallback' = AfterSave(fallback)
        /\ last' = Did("call_add", TRUE, EntryOf(inp), inp.parcelas, 0, 0)

\* df = add_transaction(df, ...), save_data raises
CallAddWriteFails ==
    \E inp \in CallInputs :
        /\ Len(df) + inp.parcelas <= MaxRows
        /\ file' \in UNION {failed_write(file, t) : t \in AddFromForm(df, inp)}
        /\ df' = df
        /\ UNCHANGED <<fresh, fallback>>
        /\ last' = Did("call_add", FALSE, EntryOf(inp), inp.parcelas, 0, 0)

NextOps ==
    \/ Next
    \/ CallAddSaved
    \/ CallAddWriteFails

SpecOps == Init /\ [][NextOps]_vars

(***************************************************************************)
(* Properties.                                                             *)
(***************************************************************************)
Appended == last'.op = "submit" /\ last'.ok
Deleted == last'.op = "delete" /\ last'.ok

\* how many rows of t carry the fields r
Count(t, r) == Cardinality({i \in 1..Len(t) : Fields(t[i]) = r})

RowsOf(t) == {Fields(t[i]) : i \in 1..Len(t)}

\* a row without its date
Undated(r) == [Tipo |-> r.Tipo, Categoria |-> r.Categoria, Valor |-> r.Valor,
               Descricao |-> r.Descricao]

CountUndated(t, u) == Cardinality({i \in 1..Len(t) : Undated(t[i]) = u})

\* the k-th of n rows an entry e is to give, without its date
ExpectedUndated(e, k, n) ==
    [Tipo |-> e.Tipo, Categoria |-> e.Categoria, Valor |-> e.Valor,
     Descricao |-> IF n > 1
                   THEN e.Descricao \o " (" \o ToString(k) \o "/" \o ToString(n) \o ")"
                   ELSE e.Descricao]

\* C1: an append of n >= 1 installments leaves a table with exactly n more
\* rows; the new rows carry the entry's kind, category and full amount, the
\* k-th of them the description followed by " (k/n)" when n > 1 and the
\* description unchanged when n = 1; the rows of the old table are all kept.
C1_AppendAddsRows ==
    [][Appended =>
        LET n == last'.parcelas
            e == last'.arg
            us == {Undated(df[i]) : i \in 1..Len(df)}
                    \cup {Undated(df'[i]) : i \in 1..Len(df')}
                    \cup {ExpectedUndated(e, k, n) : k \in 1..n}
        IN  /\ n >= 1
            /\ Len(df') = Len(df) + n
            /\ \A u \in us :
                  CountUndated(df', u) =
                     CountUndated(df, u)
                       + Cardinality({k \in 1..n : ExpectedUndated(e, k, n) = u})]_vars

C1_Witness ==
    /\ last.op = "submit" /\ last.ok
    /\ last.parcelas = 2
    /\ last.arg.Descricao = "Aluguel"
    /\ Len(df) = 3
    /\ \E i, j \in 1..Len(df) :
          /\ df[i].Descricao = "Aluguel (1/2)"
          /\ df[j].Descricao = "Aluguel (2/2)"
          /\ df[i].Valor = last.arg.Valor /\ df[j].Valor = last.arg.Valor

\* the k-th of n rows an entry e is to give, dated date
ExpectedRow(e, k, n, date) ==
    [Data |-> date, Tipo |-> e.Tipo, Categoria |-> e.Categoria, Valor |-> e.Valor,
     Descricao |-> ExpectedUndated(e, k, n).Descricao]

\* the table t1 is the table t0 and the rows exp[1..n], in some order
IsTablePlus(t1, t0, exp, n) ==
    /\ Len(t1) = Len(t0) + n
    /\ \A r \in RowsOf(t0) \cup RowsOf(t1) \cup {exp[k] : k \in 1..n} :
          Count(t1, r) = Count(t0, r) + Cardinality({k \in 1..n : exp[k] = r})

\* months since year 0
MonthIndex(date) == date.y * 12 + (date.m - 1)

\* the start date's day-of-month, in the month k - 1 months after it
SameDayLater(start, k) ==
    LET mi == MonthIndex(start) + (k - 1)
    IN  [y |-> mi \div 12, m |-> (mi % 12) + 1, d |-> start.d]

\* the same, the day being the month's last day when the month is too short
ClippedDayLater(start, k) ==
    LET s == SameDayLater(start, k)
        len == DaysInMonth(s.y, s.m)
    IN  IF s.d > len THEN [s EXCEPT !.d = len] ELSE s

C3_DeleteByPosition ==
    [][Deleted => Body(df') = RemoveAt(Body(df), last'.id + 1)]_vars

\* C3 amended: delete removes the one row whose index label is `position`,
\* and no other row; the label is the row's ordinal position when the table
\* comes from a load or a delete, but after an append it is the position the
\* row had before the append sorted the table.
C3_DeleteByLabel ==
    [][Deleted =>
        /\ Cardinality({i \in 1..Len(df) : df[i].idx = last'.id}) = 1
        /\ \A i \in 1..Len(df) :
              df[i].idx = last'.id => Body(df') = RemoveAt(Body(df), i)
        /\ ((\A i \in 1..Len(df) : df[i].idx = i - 1)
               => Body(df') = RemoveAt(Body(df), last'.id + 1))
        /\ \A i \in 1..Len(df') : df'[i].idx = i - 1]_vars

\* a delete whose label was not the row's position
C3_Witness ==
    /\ last.op = "delete" /\ last.ok
    /\ last.pos # last.id
    /\ Len(df) = 2

\* what a load gives back of a table that was saved
Reloaded(t) == load_data(save_data(t))

\* C4 as stated: after a delete, the table a load returns has exactly one row
\* fewer and holds no row with the removed row's fields.
C4_RemovedFieldsAbsent ==
    [][Deleted =>
        LET t == load_data(file')
        IN  /\ Len(t) = Len(df) - 1
            /\ last'.arg \notin RowsOf(t)
            /\ Fields(Reloaded(<<df[last'.pos + 1]>>)[1]) \notin RowsOf(t)]_vars

\* C4 amended: after a delete, the table a load returns has exactly one row
\* fewer: one occurrence of the removed row's fields is gone (they are absent
\* only when no other row carried the same fields) and every other row is
\* kept; deleting the only row leaves a file with the header alone, which
\* loads as the empty table.
C4_OneOccurrenceRemoved ==
    [][Deleted =>
        LET t == load_data(file')
            before == Reloaded(df)
            gone == Fields(Reloaded(<<df[last'.pos + 1]>>)[1])
        IN  /\ file'.kind = "csv"
            /\ Len(t) = Len(df) - 1
            /\ \A r \in RowsOf(before) \cup RowsOf(t) :
                  Count(t, r) = Count(before, r) - (IF r = gone THEN 1 ELSE 0)
            /\ (Len(df) = 1 => file'.rows = <<>> /\ t = <<>>)]_vars

\* one of two rows with the same fields was deleted
C4_Witness ==
    /\ last.op = "delete" /\ last.ok
    /\ last.arg \in RowsOf(load_data(file))
    /\ Len(load_data(file)) = 1

\* the dates of a table ascend, the null dates last
DatesAscending(t) ==
    \A i, j \in 1..Len(t) :
        i < j => /\ (t[i].Data = NaT => t[j].Data = NaT)
                 /\ (t[j].Data # NaT => DateKey(t[i].Data) <= DateKey(t[j].Data))

\* the date cells of a file are dates and ascend
FileAscending(f) ==
    /\ \A i \in 1..Len(f.rows) : to_datetime(f.rows[i].Data) # NaT
    /\ \A i, j \in 1..Len(f.rows) : i < j => f.rows[i].Data <= f.rows[j].Data

\* C5: after an append the table is sorted ascending by date (null dates
\* last) and the file holds that sorted table; when the first session started
\* from an empty store, the file is in ascending date order after any
\* sequence of appends and deletes.
C5_SortedAndPersisted ==
    /\ (last.op = "submit" /\ last.ok) =>
          /\ DatesAscending(df)
          /\ file.kind = "csv"
          /\ Len(file.rows) = Len(df)
          /\ Body(load_data(file)) = Body(Reloaded(df))
          /\ \A i \in 1..Len(df) : to_datetime(file.rows[i].Data) = df[i].Data
    /\ fresh => FileAscending(file)

\* an append put a row before an older one, in a store that started empty
C5_Witness ==
    /\ fresh
    /\ last.op = "submit" /\ last.ok
    /\ Len(df) = 3
    /\ df[1].idx = 2
    /\ DateKey(df[1].Data) < DateKey(df[2].Data)
    /\ file.rows[1].Data < file.rows[2].Data

\* C6: net_balance(table) = total_by_kind(table, Income) -
\* total_by_kind(table, Expense), for every table, loaded ones included.
C6_BalanceIsIncomeMinusExpense ==
    total_balance(df) = total_income(df) - total_expense(df)

RECURSIVE SumOfGroups(_, _)
SumOfGroups(g, S) ==
    IF S = {} THEN 0
    ELSE LET c == CHOOSE x \in S : TRUE
         IN  g[c] + SumOfGroups(g, S \ {c})

\* C7: for each kind, the per-category sums of group_by_category(table, kind)
\* add up to total_by_kind(table, kind), also when a row's category is empty
\* or missing.
C7_CategorySumsAddUp ==
    \A kind \in Kinds :
        LET g == group_by_category(df, kind)
        IN  SumOfGroups(g, DOMAIN g) = total_by_kind(df, kind)

\* the rows of t dated on or before date
UpTo(t, date) == SelectSeq(t, LAMBDA r : DateKey(r.Data) <= DateKey(date))

\* C8: for a table with dated rows, cumulative_series has one point per
\* distinct date, in ascending date order; each point carries the sums of
\* all rows dated on or before it; the last cumulative balance is
\* net_balance(table).
C8_CumulativeSeries ==
    LET rows == dropna(df)
        cs == cumulative_series(df)
    IN  rows # <<>> =>
          /\ Len(cs) = Cardinality({rows[i].Data : i \in 1..Len(rows)})
          /\ \A i \in 1..Len(rows) : \E k \in 1..Len(cs) : cs[k].Data = rows[i].Data
          /\ \A k \in 1..(Len(cs) - 1) : DateKey(cs[k].Data) < DateKey(cs[k + 1].Data)
          /\ \A k \in 1..Len(cs) :
                /\ cs[k].Receita_Acumulada
                      = Sum(ColValor(OfKind(UpTo(rows, cs[k].Data), "Receita")))
                /\ cs[k].Despesa_Acumulada
                      = Sum(ColValor(OfKind(UpTo(rows, cs[k].Data), "Despesa")))
                /\ cs[k].Saldo_Cumulativo = Sum(ColValorAjustado(UpTo(rows, cs[k].Data)))
          /\ cs[Len(cs)].Saldo_Cumulativo = total_balance(df)

\* three dated rows, two of them on one day, an income among them
C8_Witness ==
    /\ Len(dropna(df)) = 3
    /\ Len(cumulative_series(df)) = 2
    /\ cumulative_series(df)[1].Saldo_Cumulativo # 0
    /\ cumulative_series(df)[2].Saldo_Cumulativo
          # cumulative_series(df)[1].Saldo_Cumulativo
    /\ cumulative_series(df)[2].Receita_Acumulada > 0

\* C9 as stated: add_transaction itself, called with amount <= 0, fails: no
\* row is added and nothing is written.
C9_AddTransactionValidates ==
    [][(last'.op = "call_add" /\ last'.arg.Valor <= 0) =>
          (df' = df /\ file' = file)]_vars

\* C9 amended: the form submit handler rejects an entry with amount <= 0
\* before it calls add_transaction: no row is added and nothing is written;
\* the handler passes only amounts > 0 on. add_transaction itself does not
\* look at the amount: called with amount <= 0 it adds and saves the rows.
C9_HandlerValidates ==
    [][/\ last'.op = "rejected" =>
             (last'.arg.Valor <= 0 /\ df' = df /\ file' = file)
       /\ last'.op = "submit" => last'.arg.Valor > 0
       /\ (last'.op = "call_add" /\ last'.ok) =>
             (Len(df') = Len(df) + last'.parcelas /\ file' = save_data(df'))]_vars

C9_Witness ==
    /\ last.op = "rejected"
    /\ last.arg.Valor <= 0
    /\ Len(df) = 2
    /\ file = save_data(df)

WriteFailed == last'.op \in {"submit", "delete"} /\ ~last'.ok

\* the tables the failed operation computed and tried to save
Attempted ==
    IF last'.op = "delete"
    THEN {delete_transaction(df, last'.id)}
    ELSE add_transaction(df, last'.arg.Data, last'.arg.Tipo, last'.arg.Categoria,
                         last'.arg.Valor, last'.arg.Descricao, last'.parcelas)

Saving == last'.op \in {"submit", "delete"}

\* C11: save overwrites the file atomically: at every point during and after
\* a save, also one that fails part-way, a reader of the file finds either the
\* complete old table or the complete new table, never a partly written one.
C11_SaveIsAtomic ==
    [][Saving => (file' = file \/ \E t \in Attempted : file' = save_data(t))]_vars

\* the rows of a table that have a date
Dated(t) == SelectSeq(t, LAMBDA r : r.Data # NaT)

\* a row that has no date
NullDated(r) == r.Data = NaT

\* C12: a row whose date is null is left out of every aggregation (balance,
\* totals, category, month, year and cumulative views) and of every listing,
\* in every state loads, appends and deletes lead to: each view of the
\* session's table is the view of its dated rows alone.
C12_NullDatesExcluded ==
    LET d == Dated(df)
    IN  /\ total_balance(df) = Sum(ColValorAjustado(d))
        /\ \A kind \in Kinds :
              /\ total_by_kind(df, kind) = Sum(ColValor(OfKind(d, kind)))
              /\ group_by_category(df, kind) = group_by_category(d, kind)
              /\ \A c \in DOMAIN group_by_category(df, kind) :
                    \E i \in 1..Len(d) : d[i].Categoria = c /\ d[i].Tipo = kind
              /\ detail_listing(df, kind) = detail_listing(d, kind)
              /\ \A x \in detail_listing(df, kind) : ~NullDated(x)
        /\ monthly_summary(df) = monthly_summary(d)
        /\ yearly_summary(df) = yearly_summary(d)
        /\ cumulative_series(df) = cumulative_series(d)
        /\ \A k \in 1..Len(cumulative_series(df)) :
              ~NullDated(cumulative_series(df)[k])
        /\ history_listing(df) = history_listing(d)
        /\ \A x \in history_listing(df) : ~NullDated(x)
        /\ Cardinality(history_listing(df)) = Len(d)
        /\ valid_ids(df) = Labels(d)

\* after an append and a delete the table still holds the undated expense of
\* category Lazer, next to a dated row; no view shows it
C12_Witness ==
    /\ last.op = "delete" /\ last.ok
    /\ \E i \in 1..Len(df) :
          /\ NullDated(df[i])
          /\ df[i].Tipo = "Despesa" /\ df[i].Categoria = "Lazer"
          /\ df[i].idx \notin valid_ids(df)
    /\ \E i \in 1..Len(df) : df[i].Descricao = "Aluguel"
    /\ "Lazer" \notin DOMAIN group_by_category(df, "Despesa")
    /\ Len(Dated(df)) = 1

\* a valid row: a date, one of the two kinds, a category of that kind, a
\* positive amount, a description that is a text (possibly the empty one)
ValidRow(r) ==
    /\ r.Data # NaT
    /\ r.Tipo \in Kinds
    /\ \E k \in 1..Len(get_categories(r.Tipo)) : get_categories(r.Tipo)[k] = r.Categoria
    /\ r.Valor > 0
    /\ r.Descricao # NaN

\* C13: for every table of valid rows, save followed by load gives back the
\* same transactions field for field, and so does saving and loading again.
C13_RoundTrip ==
    (\A i \in 1..Len(df) : ValidRow(df[i])) =>
        /\ Body(Reloaded(df)) = Body(df)
        /\ Body(Reloaded(Reloaded(df))) = Body(df)

\* the labels of a table are all different
UniqueLabels(t) == Cardinality(Labels(t)) = Len(t)

\* C14: on the history page the row the delete button removes is exactly the
\* row listed under the selected ID: the IDs offered are index labels of the
\* session's table, the labels are unique, and delete drops by label, also
\* after appends have sorted the table without re-indexing it.
C14_DeletesTheRowShown ==
    [][/\ UniqueLabels(df) /\ UniqueLabels(df')
       /\ valid_ids(df) \subseteq Labels(df)
       /\ valid_ids(df) = {x.ID : x \in history_listing(df)}
       /\ Deleted =>
            LET shown == {x \in history_listing(df) : x.ID = last'.id}
            IN  /\ Cardinality(shown) = 1
                /\ \A x \in shown :
                      \E i \in 1..Len(df) :
                          /\ df[i].idx = x.ID
                          /\ Fields(df[i]) = Fields(x)
                          /\ Body(df') = RemoveAt(Body(df), i)
                          /\ file' = save_data(reset_index(RemoveAt(df, i)))]_vars

\* an append of two installments put its first row before an older one; the
\* row listed under that row's ID (not its position) was then deleted
C14_Witness ==
    /\ last.op = "delete" /\ last.ok
    /\ last.id # last.pos
    /\ last.arg.Descricao = "Aluguel (1/2)"
    /\ Len(df) = 2
    /\ \A i \in 1..Len(df) : df[i].Descricao # "Aluguel (1/2)"
    /\ \E i \in 1..Len(df) : df[i].Descricao = "Aluguel (2/2)"

\* the file row f is the written form of the table row r
WrittenAs(f, r) ==
    /\ to_datetime(f.Data) = r.Data
    /\ (r.Data = NaT => f.Data = 0)
    /\ f.Tipo = write_text(r.Tipo)
    /\ f.Categoria = write_text(r.Categoria)
    /\ f.Valor # <<>> /\ to_numeric(f.Valor) = r.Valor
    /\ f.Descricao = write_text(r.Descricao)

\* C15: in a session, after every successful append or delete the file holds
\* exactly the rows of the session's in-memory table, in the same order, the
\* rows with a null date that no view displays included.
C15_FileHoldsSessionTable ==
    (last.op \in {"submit", "delete"} /\ last.ok) =>
        /\ file.kind = "csv"
        /\ Len(file.rows) = Len(df)
        /\ \A i \in 1..Len(df) : WrittenAs(file.rows[i], df[i])
        /\ Len(load_data(file)) = Len(df)
        /\ \A i \in 1..Len(df) : load_data(file)[i].Data = df[i].Data

\* an append to a table that holds a row without a date: the row is the last
\* of the table and of the file, and no view shows it
C15_Witness ==
    /\ last.op = "submit" /\ last.ok
    /\ Len(df) = 3
    /\ df[3].Data = NaT
    /\ file.kind = "csv" /\ Len(file.rows) = 3
    /\ file.rows[3].Data = 0 /\ file.rows[3].Categoria = "Lazer"
    /\ Len(dropna(df)) = 2
    /\ df[3].idx \notin valid_ids(df)

\* C16: when a load falls back on the empty table because the file that is
\* there could not be read, the load leaves the file untouched; the next
\* successful append of that session overwrites the file with the newly
\* appended rows alone, so whatever the file held before is lost.
C16_FallbackThenOverwrite ==
    [][/\ (last'.op = "load" /\ ReadFailed(file)) =>
             (df' = <<>> /\ file' = file /\ fallback' = "pending")
       /\ fallback = "pending" => df = <<>>
       /\ (fallback = "pending" /\ ~Appended /\ last'.op # "load") =>
             (df' = <<>> /\ fallback' = "pending")
       /\ (fallback = "pending" /\ Appended) =>
             LET n == last'.parcelas
                 e == last'.arg
             IN  /\ fallback' = "overwritten"
                 /\ file'.kind = "csv"
                 /\ Len(file'.rows) = n
                 /\ \A i \in 1..n : WrittenAs(file'.rows[i], df'[i])
                 /\ IsTablePlus(df', <<>>,
                                [k \in 1..n |->
                                    ExpectedRow(e, k, n, ClippedDayLater(e.Data, k))],
                                n)]_vars

\* the file could not be read, the session started empty, and its first
\* successful append, of two installments, left a file of those two rows
C16_Witness ==
    /\ fallback = "overwritten"
    /\ last.op = "submit" /\ last.ok
    /\ last.parcelas = 2
    /\ Len(df) = 2
    /\ file.kind = "csv" /\ Len(file.rows) = 2
    /\ file.rows[1].Descricao = "Aluguel (1/2)"
    /\ file.rows[2].Descricao = "Aluguel (2/2)"

====
